---- MODULE Spec2Model ----
(***************************************************************************)
(* Model of vertexAiWorkspace/combine_json.py: the conversion of a Vertex  *)
(* AI Studio conversation export (JSON) into one Markdown file.            *)
(*                                                                         *)
(* Representation.  A Python value is a record tagged with its type:       *)
(* [t |-> "str", v |-> <<chars>>], [t |-> "list", v |-> <<values>>],        *)
(* [t |-> "dict", v |-> function from keys to values], [t |-> "int", ...],  *)
(* [t |-> "bool", ...], [t |-> "NoneType"]; the tag is the name of the     *)
(* Python type.  A str is a sequence of pieces; the pieces of input        *)
(* strings are single characters, the pieces of the program's literals are *)
(* the literals.  A dict stands for a JSON object whose keys are written   *)
(* in the order of KeyNames.  A text file is the sequence of its           *)
(* newline-terminated lines; the console is the sequence of the lines      *)
(* printed.  The line break is the piece "\n"; the heading marker of the   *)
(* program is the three characters '#', '#', ' ', so that a line is        *)
(* recognised as a heading by its characters, whoever wrote them.          *)
(***************************************************************************)
EXTENDS Integers, Sequences, FiniteSets, TLC

VARIABLES
    inputOpen,   \* outcome of open(input_file, 'r'): "ok" or the error raised
    outputOpen,  \* outcome of open(output_file, 'w'): "ok" or the error raised
    data,        \* content of the input file: the value json.load gives for
                 \* it, or the class of its failure when json.load raises
    fsOut,       \* the file at the output path: NoFile or its lines
    log,         \* lines printed on the console
    pc,          \* position of the run
    messages,    \* local `messages` (line 37)
    i,           \* number of loop iterations started (line 43)
    exc,         \* exception in flight or last handled
    exitCode     \* exit status of the process, NotExited while running

vars == <<inputOpen, outputOpen, data, fsOut, log, pc, messages, i, exc, exitCode>>

-----------------------------------------------------------------------------
(* Bounds of the model *)

MaxMsgs == 2
MaxParts == 2

-----------------------------------------------------------------------------
(* Python values *)

PyStr(s) == [t |-> "str", v |-> s]
PyList(l) == [t |-> "list", v |-> l]
PyDict(d) == [t |-> "dict", v |-> d]
PyInt(n) == [t |-> "int", v |-> n]
PyBool(b) == [t |-> "bool", v |-> b]
PyFloat(x) == [t |-> "float", v |-> x]
PyNone == [t |-> "NoneType"]

\* file contents for which json.load raises: UTF-8 text that the decoder
\* rejects, bytes that are not UTF-8, nesting beyond the recursion limit, and
\* text (valid JSON or not) in which the decoder first meets an integer of
\* more than 4300 digits
NotJson == [t |-> "invalid"]
NotUtf8 == [t |-> "notutf8"]
TooDeep == [t |-> "toodeep"]
HugeInt(valid) == [t |-> "hugeint", valid |-> valid]
Unread == [t |-> "unread"]

NoFile == [exists |-> FALSE]
File(lines) == [exists |-> TRUE, lines |-> lines]
NoExc == [type |-> "None", msg |-> ""]
Raise(type, msg) == [type |-> type, msg |-> msg]

\* the OSError raised by open(path)
OpenError(type, path) ==
    Raise(type, (CASE type = "FileNotFoundError" -> "[Errno 2] No such file or directory: '"
                   [] type = "IsADirectoryError" -> "[Errno 21] Is a directory: '"
                   [] OTHER -> "[Errno 13] Permission denied: '") \o path \o "'")

\* outcome of an expression: the exception raised, or the value
Ok(val) == [exc |-> NoExc, val |-> val]
Err(e) == [exc |-> e, val |-> PyNone]
NotExited == -1

InputPath == "chat.json"
OutputPath == "chat.md"

\* the keys of the objects of the model, and their characters
KeyNames ==
    <<"author", "content", "context", "inlineData", "messages", "parts", "role",
      "score", "text">>
Chars(key) ==
    CASE key = "author" -> <<"a", "u", "t", "h", "o", "r">>
      [] key = "content" -> <<"c", "o", "n", "t", "e", "n", "t">>
      [] key = "context" -> <<"c", "o", "n", "t", "e", "x", "t">>
      [] key = "inlineData" -> <<"i", "n", "l", "i", "n", "e", "D", "a", "t", "a">>
      [] key = "messages" -> <<"m", "e", "s", "s", "a", "g", "e", "s">>
      [] key = "parts" -> <<"p", "a", "r", "t", "s">>
      [] key = "role" -> <<"r", "o", "l", "e">>
      [] key = "score" -> <<"s", "c", "o", "r", "e">>
      [] key = "text" -> <<"t", "e", "x", "t">>
KeysOf(d) == SelectSeq(KeyNames, LAMBDA k : k \in DOMAIN d)

-----------------------------------------------------------------------------
(* str.capitalize(): first character upper-cased, the rest lower-cased *)

Lowers == <<"a", "b", "c", "m", "o", "s", "t", "u", "x">>
Uppers == <<"A", "B", "C", "M", "O", "S", "T", "U", "X">>

Upper(c) ==
    IF \E k \in 1..Len(Lowers) : Lowers[k] = c
    THEN Uppers[CHOOSE k \in 1..Len(Lowers) : Lowers[k] = c]
    ELSE c

Lower(c) ==
    IF \E k \in 1..Len(Uppers) : Uppers[k] = c
    THEN Lowers[CHOOSE k \in 1..Len(Uppers) : Uppers[k] = c]
    ELSE c

Capitalize(s) ==
    IF s = <<>> THEN <<>>
    ELSE <<Upper(s[1])>> \o [k \in 1..(Len(s) - 1) |-> Lower(s[k + 1])]

-----------------------------------------------------------------------------
(* Operations of Python used by the script *)

\* the complete lines of a text: every write and every print of the script
\* ends with a line break
LineBreaks(text) == SelectSeq([k \in 1..Len(text) |-> k], LAMBDA k : text[k] = "\n")
Lines(text) ==
    [j \in 1..Len(LineBreaks(text)) |->
        SubSeq(text,
               IF j = 1 THEN 1 ELSE LineBreaks(text)[j - 1] + 1,
               LineBreaks(text)[j] - 1)]

IsSubstring(sub, s) ==
    \E k \in 1..(Len(s) - Len(sub) + 1) : SubSeq(s, k, k + Len(sub) - 1) = sub

\* 'key' in x
Contains(key, x) ==
    CASE x.t = "dict" -> Ok(key \in DOMAIN x.v)
      [] x.t = "list" -> Ok(\E k \in 1..Len(x.v) : x.v[k] = PyStr(Chars(key)))
      [] x.t = "str" -> Ok(IsSubstring(Chars(key), x.v))
      [] OTHER -> Err(Raise("TypeError", "argument of type '" \o x.t \o "' is not iterable"))

\* x['key']
Subscript(x, key) ==
    CASE x.t = "dict" ->
           IF key \in DOMAIN x.v THEN Ok(x.v[key])
           ELSE Err(Raise("KeyError", "'" \o key \o "'"))
      [] x.t = "str" -> Err(Raise("TypeError", "string indices must be integers, not 'str'"))
      [] x.t = "list" ->
           Err(Raise("TypeError", "list indices must be integers or slices, not str"))
      [] OTHER -> Err(Raise("TypeError", "'" \o x.t \o "' object is not subscriptable"))

\* x.get('key', default) where 'key' in x holds
Get(x, key) ==
    IF x.t = "dict" THEN Ok(x.v[key])
    ELSE Err(Raise("AttributeError", "'" \o x.t \o "' object has no attribute 'get'"))

\* x.capitalize()
CapitalizeOf(x) ==
    IF x.t = "str" THEN Ok(Capitalize(x.v))
    ELSE Err(Raise("AttributeError",
                   "'" \o x.t \o "' object has no attribute 'capitalize'"))

\* the items of `for part in x`
Iterate(x) ==
    CASE x.t = "list" -> Ok(x.v)
      [] x.t = "str" -> Ok([k \in 1..Len(x.v) |-> PyStr(<<x.v[k]>>)])
      [] x.t = "dict" -> Ok([k \in 1..Len(KeysOf(x.v)) |-> PyStr(Chars(KeysOf(x.v)[k]))])
      [] OTHER -> Err(Raise("TypeError", "'" \o x.t \o "' object is not iterable"))

\* isinstance(x, list)
IsList(x) == x.t = "list"

\* repr(x), and f"{x}"
\* the characters of a str inside its repr: line break and backslash escaped
RECURSIVE Escaped(_)
Escaped(s) ==
    IF s = <<>> THEN <<>>
    ELSE (CASE Head(s) = "\n" -> <<"\\", "n">>
            [] Head(s) = "\\" -> <<"\\", "\\">>
            [] OTHER -> <<Head(s)>>) \o Escaped(Tail(s))
RECURSIVE PyRepr(_)
RECURSIVE ReprItems(_)
RECURSIVE ReprEntries(_, _)
ReprItems(l) ==
    IF l = <<>> THEN <<>>
    ELSE PyRepr(Head(l)) \o (IF Len(l) > 1 THEN <<", ">> ELSE <<>>) \o ReprItems(Tail(l))
ReprEntries(d, keys) ==
    IF keys = <<>> THEN <<>>
    ELSE <<"'", Head(keys), "': ">> \o PyRepr(d[Head(keys)])
         \o (IF Len(keys) > 1 THEN <<", ">> ELSE <<>>) \o ReprEntries(d, Tail(keys))
PyRepr(x) ==
    CASE x.t = "str" -> <<"'">> \o Escaped(x.v) \o <<"'">>
      [] x.t = "list" -> <<"[">> \o ReprItems(x.v) \o <<"]">>
      [] x.t = "dict" -> <<"{">> \o ReprEntries(x.v, KeysOf(x.v)) \o <<"}">>
      [] x.t = "int" -> <<ToString(x.v)>>
      [] x.t = "bool" -> <<IF x.v THEN "True" ELSE "False">>
      [] x.t = "float" -> <<x.v>>
      [] x.t = "NoneType" -> <<"None">>
Format(x) == IF x.t = "str" THEN x.v ELSE PyRepr(x)

-----------------------------------------------------------------------------
(* Lines written and printed *)

HeaderLines == Lines(<<"#", " ", "Vertex AI Conversation Log", "\n", "\n">>)
ErrorHeading == <<"#", "#", " ", "Error">>
NoListErrorLines ==
    Lines(ErrorHeading
          \o <<"\n", "\n", "Input file does not contain a valid 'messages' list.", "\n">>)
ParseErrorLines ==
    Lines(ErrorHeading
          \o <<"\n", "\n",
               "Could not parse the input file. Please ensure it is a valid JSON file.",
               "\n">>)
NoMessagesLine == <<"*No messages found in the file.*">>
NoContentText == <<"*No text content found in this message.*">>
HeadingLines(author) == Lines(<<"#", "#", " ">> \o author \o <<"\n", "\n">>)
PartLines(text) == Lines(Format(text) \o <<"\n">>)
\* print(text)
Printed(text) == Lines(text \o <<"\n">>)

LogNoList == <<"Error: Input file '", InputPath, "' does not contain a 'messages' list.">>
LogEmpty == <<"Successfully created '", OutputPath, "', but no messages were found.">>
LogSuccessLine(n) ==
    <<"Successfully converted ", ToString(n), " messages from '", InputPath,
      "' to '", OutputPath, "'">>
LogParseError ==
    <<"Error: Could not parse '", InputPath, "'. It may not be a valid JSON file.">>
LogNotFound == <<"Error: The input file '", InputPath, "' was not found.">>
LogUnexpected(e) == <<"An unexpected error occurred: ", e.msg>>

-----------------------------------------------------------------------------
(* The loop body, lines 55-82 *)

UnknownAuthor(n) == <<"Message ", ToString(n + 1), " (Unknown Author)">>

\* message.get(key).capitalize()
LabelFrom(message, key) ==
    IF Get(message, key).exc # NoExc THEN Get(message, key)
    ELSE CapitalizeOf(Get(message, key).val)

\* `role` looked up before `author`
AuthorOfRoleFirst(message, n) ==
    IF Contains("role", message).exc # NoExc THEN Contains("role", message)
    ELSE IF Contains("role", message).val THEN LabelFrom(message, "role")
    ELSE IF Contains("author", message).val THEN LabelFrom(message, "author")
    ELSE Ok(UnknownAuthor(n))

\* lines 55-60: the author label of the message at 0-based index n
AuthorOf(message, n) ==
    IF Contains("author", message).exc # NoExc THEN Contains("author", message)
    ELSE IF Contains("author", message).val THEN LabelFrom(message, "author")
    ELSE IF Contains("role", message).val THEN LabelFrom(message, "role")
    ELSE Ok(UnknownAuthor(n))

\* lines 66-71: the content of the message
ContentOf(message) ==
    IF Contains("content", message).exc # NoExc THEN Contains("content", message)
    ELSE IF Contains("content", message).val THEN Get(message, "content")
    ELSE IF Contains("text", message).val THEN Get(message, "text")
    ELSE Ok(PyStr(NoContentText))

\* the parts written last to first
RECURSIVE WritePartsReversed(_, _)
WritePartsReversed(parts, out) ==
    IF parts = <<>> THEN [out |-> out, exc |-> NoExc]
    ELSE IF Subscript(parts[Len(parts)], "text").exc # NoExc
    THEN [out |-> out, exc |-> Subscript(parts[Len(parts)], "text").exc]
    ELSE WritePartsReversed(SubSeq(parts, 1, Len(parts) - 1),
                            out \o PartLines(Subscript(parts[Len(parts)], "text").val))

\* lines 79-82: the lines written for the items of parts, up to the first
\* item whose subscript part['text'] raises
RECURSIVE WriteParts(_, _)
WriteParts(parts, out) ==
    IF parts = <<>> THEN [out |-> out, exc |-> NoExc]
    ELSE IF Subscript(Head(parts), "text").exc # NoExc
    THEN [out |-> out, exc |-> Subscript(Head(parts), "text").exc]
    ELSE WriteParts(Tail(parts), out \o PartLines(Subscript(Head(parts), "text").val))

\* lines 74-82: subscript content['parts'], heading, part lines
WriteMessage(content, author, out) ==
    IF Subscript(content, "parts").exc # NoExc
    THEN [out |-> out, exc |-> Subscript(content, "parts").exc]
    ELSE IF Iterate(Subscript(content, "parts").val).exc # NoExc
    THEN [out |-> out \o HeadingLines(author),
          exc |-> Iterate(Subscript(content, "parts").val).exc]
    ELSE WriteParts(Iterate(Subscript(content, "parts").val).val,
                    out \o HeadingLines(author))

\* lines 55-82: one iteration on `message`
LoopBody(message, n, out, printed) ==
    IF AuthorOf(message, n).exc # NoExc
    THEN [out |-> out, log |-> printed, exc |-> AuthorOf(message, n).exc]
    ELSE IF ContentOf(message).exc # NoExc
    THEN [out |-> out, log |-> printed \o Printed(AuthorOf(message, n).val),
          exc |-> ContentOf(message).exc]
    ELSE LET res == WriteMessage(ContentOf(message).val, AuthorOf(message, n).val, out)
         IN [out |-> res.out, log |-> printed \o Printed(AuthorOf(message, n).val),
             exc |-> res.exc]

-----------------------------------------------------------------------------
(* Inputs *)

Field(key, vals) == {<<>>} \cup {key :> val : val \in vals}

PartVals_a == PyDict([text |-> PyStr(<<"a">>)])
PartVals_b == PyDict([text |-> PyStr(<<"b">>)])
PartVals == {PartVals_a, PartVals_b, PyDict([inlineData |-> PyStr(<<"x">>)])}

\* lists of pairwise distinct parts whose texts are "a", or "a" then "b"
PartsLists ==
    { p \in UNION {[1..n -> PartVals] : n \in 0..MaxParts} :
        /\ \A a, b \in DOMAIN p : a # b => p[a] # p[b]
        /\ SelectSeq(p, LAMBDA part : "text" \in DOMAIN part.v)
             \in { <<>>, <<PartVals_a>>, <<PartVals_a, PartVals_b>> } }

ContentVals ==
    {PyStr(<<"c">>), PyDict([role |-> PyStr(<<"u">>)])}
    \cup {PyDict([role |-> PyStr(<<"u">>), parts |-> PyList(p)]) : p \in PartsLists}

AllMessages ==
    { PyDict(a @@ r @@ c @@ x) :
        a \in Field("author", {PyStr(<<"u", "S">>)}),
        r \in Field("role", {PyStr(<<"m", "O">>)}),
        c \in Field("content", ContentVals),
        x \in Field("text", {PyStr(<<"t">>)}) }

OnePartContent ==
    PyDict([role |-> PyStr(<<"u">>), parts |-> PyList(<<PyDict([text |-> PyStr(<<"a">>)])>>)])

\* the messages of the inputs vary in their body fields (a text field next to
\* a content field only for the one-part content), or in their label fields
\* around the one-part content
Messages ==
    { m \in AllMessages :
        \/ /\ DOMAIN m.v \cap {"author", "role"} = {}
           /\ {"content", "text"} \subseteq DOMAIN m.v
                => m.v.content = OnePartContent
        \/ /\ "text" \notin DOMAIN m.v
           /\ "content" \in DOMAIN m.v
           /\ m.v.content = OnePartContent }

\* messages with values of other types: a label that is no string, parts
\* that are no list, a text that is no string, and
\* messages that are no objects
OtherMessages ==
    { PyDict([author |-> PyInt(5), content |-> OnePartContent]),
      PyDict([content |-> PyDict([parts |-> PyNone])]),
      PyDict([content |-> PyDict([parts |-> PyList(<<PyDict([text |-> PyInt(5)])>>)])]),
      PyStr(<<"x">>),
      PyInt(5) }

\* messages whose strings hold a line break or begin like a heading
MarkupMessages ==
    { PyDict([author |-> PyStr(<<"u", "\n", "S">>), content |-> OnePartContent]),
      PyDict([content |->
                PyDict([parts |-> PyList(<<PyDict([text |-> PyStr(<<"#", "#", " ", "b">>)])>>)])]),
      PyDict([content |->
                PyDict([parts |->
                          PyList(<<PyDict([text |-> PyStr(<<"a", "\n", "#", "#", " ", "b">>)])>>)])]) }

MessageLists ==
    UNION {[1..n -> Messages \cup OtherMessages \cup MarkupMessages] : n \in 0..MaxMsgs}

JsonValues ==
    { PyNone, PyBool(TRUE), PyInt(5),
      PyStr(<<"x">>), PyStr(<<"x">> \o Chars("messages")),
      PyList(<<>>), PyList(<<PyStr(Chars("messages"))>>),
      PyDict([context |-> PyStr(<<"x">>)]),
      PyDict([messages |-> PyStr(<<"c">>)]),
      PyDict([messages |-> PyDict([context |-> PyStr(<<"x">>)])]) }
    \cup {PyDict([context |-> PyStr(<<"x">>), messages |-> PyList(l)]) : l \in MessageLists}

\* texts that are not JSON (RFC 8259) and that json.load accepts: NaN
NonStandardValues ==
    { PyFloat("nan"),
      PyDict([messages |-> PyList(<<>>), score |-> PyFloat("nan")]) }

FileContents ==
    {NotJson, NotUtf8, TooDeep, HugeInt(TRUE), HugeInt(FALSE)}
    \cup NonStandardValues \cup JsonValues

OpenOutcomes == {"ok", "FileNotFoundError", "PermissionError", "IsADirectoryError"}
OldFile == File(<< <<"old">> >>)

-----------------------------------------------------------------------------
(* The run *)

Init ==
    /\ inputOpen \in OpenOutcomes
    /\ outputOpen \in OpenOutcomes
    /\ data \in IF inputOpen = "ok" /\ outputOpen = "ok"
                THEN FileContents ELSE {Unread}
    /\ fsOut \in IF outputOpen \in {"FileNotFoundError", "IsADirectoryError"}
                 THEN {NoFile} ELSE {NoFile, OldFile}
    /\ log = <<>>
    /\ pc = "open"
    /\ messages = <<>>
    /\ i = 0
    /\ exc = NoExc
    /\ exitCode = NotExited

\* the output path opened before the input path
OpenBothOutputFirst(inOutcome, outOutcome, file) ==
    IF outOutcome # "ok"
    THEN [exc |-> OpenError(outOutcome, OutputPath), file |-> file]
    ELSE IF inOutcome # "ok"
    THEN [exc |-> OpenError(inOutcome, InputPath), file |-> File(<<>>)]
    ELSE [exc |-> NoExc, file |-> File(<<>>)]

\* lines 24-25: the with statement opens the input for reading, then the
\* output for writing (mode 'w' creates or truncates the file)
OpenBoth(inOutcome, outOutcome, file) ==
    IF inOutcome # "ok"
    THEN [exc |-> OpenError(inOutcome, InputPath), file |-> file]
    ELSE IF outOutcome # "ok"
    THEN [exc |-> OpenError(outOutcome, OutputPath), file |-> file]
    ELSE [exc |-> NoExc, file |-> File(<<>>)]

\* lines 24-25
OpenFiles ==
    /\ pc = "open"
    /\ LET res == OpenBoth(inputOpen, outputOpen, fsOut)
       IN /\ exc' = res.exc
          /\ fsOut' = res.file
          /\ pc' = IF res.exc = NoExc THEN "header" ELSE "exceptOuter"
    /\ UNCHANGED <<inputOpen, outputOpen, data, log, messages, i, exitCode>>

\* line 27
WriteHeader ==
    /\ pc = "header"
    /\ fsOut' = File(fsOut.lines \o HeaderLines)
    /\ pc' = "load"
    /\ UNCHANGED <<inputOpen, outputOpen, data, log, messages, i, exc, exitCode>>

\* line 30: the exception json.load(infile) raises on the file content;
\* infile.read() decodes UTF-8, the decoder then scans the text
JsonLoad(content) ==
    CASE content.t = "notutf8" ->
           Raise("UnicodeDecodeError",
                 "'utf-8' codec can't decode byte 0x89 in position 0: invalid start byte")
      [] content.t = "toodeep" ->
           Raise("RecursionError",
                 "maximum recursion depth exceeded while decoding a JSON array from a unicode string")
      [] content.t = "hugeint" ->
           Raise("ValueError",
                 "Exceeds the limit (4300 digits) for integer string conversion: value has 5000 digits; use sys.set_int_max_str_digits() to increase the limit")
      [] content.t = "invalid" ->
           Raise("JSONDecodeError", "Expecting value: line 1 column 1 (char 0)")
      [] OTHER -> NoExc

\* line 30
LoadJson ==
    /\ pc = "load"
    /\ exc' = JsonLoad(data)
    /\ pc' = IF JsonLoad(data) = NoExc THEN "check" ELSE "exceptInner"
    /\ UNCHANGED <<inputOpen, outputOpen, data, fsOut, log, messages, i, exitCode>>

\* an empty list taken for a non-empty one
NotMessagesNever(l) == FALSE

\* line 38: `not messages`
NotMessages(l) == l = <<>>

\* lines 32-41: the shape of the parsed value, and the empty list
CheckMessages ==
    /\ pc = "check"
    /\ IF Contains("messages", data).exc # NoExc
       THEN /\ exc' = Contains("messages", data).exc
            /\ pc' = "exceptInner"
            /\ UNCHANGED <<fsOut, log, messages>>
       ELSE IF ~Contains("messages", data).val
       THEN /\ log' = Append(log, LogNoList)
            /\ fsOut' = File(fsOut.lines \o NoListErrorLines)
            /\ pc' = "returned"
            /\ UNCHANGED <<exc, messages>>
       ELSE IF Subscript(data, "messages").exc # NoExc
       THEN /\ exc' = Subscript(data, "messages").exc
            /\ pc' = "exceptInner"
            /\ UNCHANGED <<fsOut, log, messages>>
       ELSE IF ~IsList(Subscript(data, "messages").val)
       THEN /\ log' = Append(log, LogNoList)
            /\ fsOut' = File(fsOut.lines \o NoListErrorLines)
            /\ pc' = "returned"
            /\ UNCHANGED <<exc, messages>>
       ELSE IF NotMessages(Subscript(data, "messages").val.v)
       THEN /\ messages' = Subscript(data, "messages").val.v
            /\ fsOut' = File(Append(fsOut.lines, NoMessagesLine))
            /\ log' = Append(log, LogEmpty)
            /\ pc' = "returned"
            /\ UNCHANGED exc
       ELSE /\ messages' = Subscript(data, "messages").val.v
            /\ pc' = "loop"
            /\ UNCHANGED <<fsOut, log, exc>>
    /\ UNCHANGED <<inputOpen, outputOpen, data, i, exitCode>>

\* lines 43-82: one iteration of the loop over the messages
ProcessMessage ==
    /\ pc = "loop"
    /\ i < Len(messages)
    /\ \E res \in {LoopBody(messages[i + 1], i, fsOut.lines, log)} :
          /\ log' = res.log
          /\ fsOut' = File(res.out)
          /\ exc' = res.exc
          /\ pc' = IF res.exc = NoExc THEN "loop" ELSE "exceptInner"
    /\ i' = i + 1
    /\ UNCHANGED <<inputOpen, outputOpen, data, messages, exitCode>>

\* line 84
LogSuccess ==
    /\ pc = "loop"
    /\ i = Len(messages)
    /\ log' = Append(log, LogSuccessLine(Len(messages)))
    /\ pc' = "returned"
    /\ UNCHANGED <<inputOpen, outputOpen, data, fsOut, messages, i, exc, exitCode>>

\* whether an exception is in flight, and whether it was raised inside the
\* try statement of line 29 (lines 30-84) or only inside that of line 23
\* (lines 24-27)
InFlight == pc \in {"exceptInner", "exceptOuter"}
InInnerTry == pc = "exceptInner"

\* the except clauses without the final `except Exception`
HandlerWithoutException(type, inner) ==
    CASE inner /\ type = "JSONDecodeError" -> "JSONDecodeError"
      [] type = "FileNotFoundError" -> "FileNotFoundError"
      [] OTHER -> "none"

\* the exception types of Python and its standard library that do not derive
\* from Exception (ExceptionGroup does, BaseExceptionGroup does not).  A type
\* is named by its class name, and by its module too where the library has
\* two classes of the name: concurrent.futures.CancelledError derives from
\* Exception, asyncio.CancelledError does not.
BaseExceptionOnly ==
    {"BaseException", "BaseExceptionGroup", "GeneratorExit", "KeyboardInterrupt",
     "SystemExit", "asyncio.CancelledError"}

\* lines 86, 90, 92: the except clause that takes an exception of this type.
\* The clause of line 86 belongs to the try statement of line 29 and takes
\* only what is raised inside it; the clauses of lines 90 and 92 belong to
\* the try statement of line 23.  `except Exception` takes every type that
\* derives from Exception and no other; an exception of a type of
\* BaseExceptionOnly leaves convert.
Handler(type, inner) ==
    CASE inner /\ type = "JSONDecodeError" -> "JSONDecodeError"
      [] type = "FileNotFoundError" -> "FileNotFoundError"
      [] type \notin BaseExceptionOnly -> "Exception"
      [] OTHER -> "none"

\* lines 86-88
HandleJSONDecodeError ==
    /\ InFlight
    /\ Handler(exc.type, InInnerTry) = "JSONDecodeError"
    /\ log' = Append(log, LogParseError)
    /\ fsOut' = File(fsOut.lines \o ParseErrorLines)
    /\ pc' = "returned"
    /\ UNCHANGED <<inputOpen, outputOpen, data, messages, i, exc, exitCode>>

\* lines 90-91
HandleFileNotFoundError ==
    /\ InFlight
    /\ Handler(exc.type, InInnerTry) = "FileNotFoundError"
    /\ log' = Append(log, LogNotFound)
    /\ pc' = "returned"
    /\ UNCHANGED <<inputOpen, outputOpen, data, fsOut, messages, i, exc, exitCode>>

\* lines 92-93
HandleException ==
    /\ InFlight
    /\ Handler(exc.type, InInnerTry) = "Exception"
    /\ log' = Append(log, LogUnexpected(exc))
    /\ pc' = "returned"
    /\ UNCHANGED <<inputOpen, outputOpen, data, fsOut, messages, i, exc, exitCode>>

\* the exit status of the interpreter when this exception leaves the
\* script: SystemExit gives its code (None is 0, an integer is taken modulo
\* 256, anything else is printed and gives 1), KeyboardInterrupt ends the
\* process by SIGINT, every other exception gives a traceback and status 1
SystemExit(code) == [type |-> "SystemExit", msg |-> "", code |-> code]
KilledBySIGINT == -2
ExitStatus(e) ==
    CASE e.type = "SystemExit" ->
           (CASE e.code.t = "NoneType" -> 0
              [] e.code.t = "int" -> e.code.v % 256
              [] e.code.t = "bool" -> IF e.code.v THEN 1 ELSE 0
              [] OTHER -> 1)
      [] e.type = "KeyboardInterrupt" -> KilledBySIGINT
      [] OTHER -> 1

\* line 116 and the end of the script: status 0 after convert returns, the
\* status of the exception when one leaves convert
Exit ==
    /\ \/ pc = "returned"
       \/ InFlight /\ Handler(exc.type, InInnerTry) = "none"
    /\ exitCode' = IF pc = "returned" THEN 0 ELSE ExitStatus(exc)
    /\ pc' = "exited"
    /\ UNCHANGED <<inputOpen, outputOpen, data, fsOut, log, messages, i, exc>>

Next ==
    \/ OpenFiles
    \/ WriteHeader
    \/ LoadJson
    \/ CheckMessages
    \/ ProcessMessage
    \/ LogSuccess
    \/ HandleJSONDecodeError
    \/ HandleFileNotFoundError
    \/ HandleException
    \/ Exit

Spec == Init /\ [][Next]_vars

\* the interpreter runs the script to its end
FairSpec == Spec /\ WF_vars(Next)
-----------------------------------------------------------------------------
(* Vocabulary of the properties *)

Done == pc = "exited"
ValidShape == data.t = "dict" /\ "messages" \in DOMAIN data.v /\ data.v.messages.t = "list"
ParsedJson == data.t \notin {"invalid", "notutf8", "toodeep", "hugeint", "unread"}
NotValidJson == data \in {NotJson, NotUtf8, TooDeep, HugeInt(FALSE)} \cup NonStandardValues
InputMessages == data.v.messages.v
LastLog == log[Len(log)]

\* the resolved content of a message object: content, else text, else the
\* placeholder
Resolved(m) ==
    IF "content" \in DOMAIN m.v THEN m.v.content
    ELSE IF "text" \in DOMAIN m.v THEN m.v.text
    ELSE PyStr(NoContentText)
PartsOf(m) == Resolved(m).v.parts.v
Structured(m) == m.t = "dict" /\ Resolved(m).t = "dict"
HasPartsList(m) ==
    /\ Structured(m)
    /\ "parts" \in DOMAIN Resolved(m).v
    /\ Resolved(m).v.parts.t = "list"
    /\ \A k \in 1..Len(PartsOf(m)) : PartsOf(m)[k].t = "dict"
WellFormed(m) ==
    /\ HasPartsList(m)
    /\ \A k \in 1..Len(PartsOf(m)) : "text" \in DOMAIN PartsOf(m)[k].v
PlainString(m) == m.t = "dict" /\ Resolved(m).t = "str"
Malformed(m) ==
    /\ Structured(m)
    /\ \/ "parts" \notin DOMAIN Resolved(m).v
       \/ HasPartsList(m) /\ ~WellFormed(m)
\* the field that gives the label, when there is one, is a string
StringLabel(m) ==
    /\ "author" \in DOMAIN m.v => m.v.author.t = "str"
    /\ ("author" \notin DOMAIN m.v /\ "role" \in DOMAIN m.v) => m.v.role.t = "str"
PartTexts(m) == [k \in 1..Len(PartsOf(m)) |-> Format(PartsOf(m)[k].v.text)]

ExpectedLabel(m, pos) ==
    IF m.t = "dict" /\ "author" \in DOMAIN m.v THEN Capitalize(m.v.author.v)
    ELSE IF m.t = "dict" /\ "role" \in DOMAIN m.v THEN Capitalize(m.v.role.v)
    ELSE <<"Message ", ToString(pos), " (Unknown Author)">>

RECURSIVE Flatten(_)
Flatten(ss) == IF ss = <<>> THEN <<>> ELSE Head(ss) \o Flatten(Tail(ss))

\* the lines of a text followed by a line break
LinesOf(text) == Lines(text \o <<"\n">>)
HeadingOf(label) == <<"#", "#", " ">> \o label

\* the heading of the message, an empty line, and the body text (plain
\* string) or the part texts, each followed by a line break
ExpectedRendering(m, pos) ==
    LinesOf(HeadingOf(ExpectedLabel(m, pos))) \o << <<>> >>
    \o (IF PlainString(m) THEN LinesOf(Resolved(m).v)
        ELSE Flatten([k \in 1..Len(PartsOf(m)) |-> LinesOf(PartTexts(m)[k])]))

\* a level-2 heading: a line that begins with '## '
IsH2(line) == Len(line) >= 3 /\ SubSeq(line, 1, 3) = <<"#", "#", " ">>
SingleLine(text) == \A k \in 1..Len(text) : text[k] # "\n"
\* neither the label nor a part text holds a line break, and no part text
\* begins like a heading
NoMarkup(m, pos) ==
    /\ SingleLine(ExpectedLabel(m, pos))
    /\ \A k \in 1..Len(PartsOf(m)) :
          SingleLine(PartTexts(m)[k]) /\ ~IsH2(PartTexts(m)[k])
IsPrefix(a, b) == Len(a) <= Len(b) /\ SubSeq(b, 1, Len(a)) = a
H2Set(out) == {p \in 1..Len(out) : IsH2(out[p])}

RECURSIVE SortedSeq(_)
SortedSeq(S) ==
    IF S = {} THEN <<>>
    ELSE LET m == CHOOSE x \in S : \A y \in S : x <= y
         IN <<m>> \o SortedSeq(S \ {m})

SectionBody(out, H, j) ==
    SubSeq(out, H[j] + 1, IF j < Len(H) THEN H[j + 1] - 1 ELSE Len(out))

IsStatusLine(l) ==
    \/ l \in {LogNoList, LogEmpty, LogParseError, LogNotFound}
    \/ Len(l) = 2 /\ l[1] = "An unexpected error occurred: "
    \/ Len(l) = 7 /\ l[1] = "Successfully converted "

-----------------------------------------------------------------------------
(* Properties *)

\* C1 as stated: when all N >= 1 messages of the input are well-formed
\* (structured content with a parts list whose parts all carry text), the
\* finished output is the header followed by exactly N level-2 headings, the
\* j-th followed by a blank line and then exactly the part texts of the j-th
\* message, one per line in part order, up to the next heading.
C1_Original ==
    (/\ Done
     /\ ValidShape
     /\ Len(InputMessages) >= 1
     /\ \A k \in 1..Len(InputMessages) : WellFormed(InputMessages[k]))
    => LET out == fsOut.lines
           H == SortedSeq(H2Set(out))
       IN /\ Len(H) = Len(InputMessages)
          /\ SubSeq(out, 1, H[1] - 1) = HeaderLines
          /\ \A j \in 1..Len(H) :
                SectionBody(out, H, j) = << <<>> >> \o PartTexts(InputMessages[j])

\* C1 amended: when all N >= 1 messages are well-formed and the label field
\* of each (author, or role when there is no author), if present, is a
\* string, the finished output is the header followed, for each message in
\* input order, by '## ' and its label, an empty line, and each part text
\* followed by a line break, all written verbatim; when moreover no label and
\* no part text holds a line break and no part text begins with '## ', the
\* output has exactly N lines beginning with '## ', the j-th followed by an
\* empty line and then exactly the part texts of the j-th message, one per
\* line in part order, up to the next such line.
C1_WellFormedRendered ==
    (/\ Done
     /\ ValidShape
     /\ Len(InputMessages) >= 1
     /\ \A k \in 1..Len(InputMessages) :
            WellFormed(InputMessages[k]) /\ StringLabel(InputMessages[k]))
    => /\ fsOut.lines =
            HeaderLines
            \o Flatten([j \in 1..Len(InputMessages) |->
                            ExpectedRendering(InputMessages[j], j)])
       /\ (\A k \in 1..Len(InputMessages) : NoMarkup(InputMessages[k], k))
            => LET out == fsOut.lines
                   H == SortedSeq(H2Set(out))
               IN /\ Len(H) = Len(InputMessages)
                  /\ SubSeq(out, 1, H[1] - 1) = HeaderLines
                  /\ \A j \in 1..Len(H) :
                        SectionBody(out, H, j)
                          = << <<>> >> \o PartTexts(InputMessages[j])

C1_Witness ==
    /\ Done
    /\ ValidShape
    /\ Len(InputMessages) = 2
    /\ \A k \in 1..2 :
          /\ WellFormed(InputMessages[k])
          /\ StringLabel(InputMessages[k])
          /\ NoMarkup(InputMessages[k], k)
    /\ PartTexts(InputMessages[1]) = << <<"a">>, <<"b">> >>
    /\ PartTexts(InputMessages[2]) = << <<"a">> >>
    /\ Len(fsOut.lines) = 9

\* C2: every message is rendered from content, else text, else the
\* placeholder; a plain string is written as the body under the heading, a
\* structured value as the text of each part, one per line.
C2_PlainStringRendered ==
    (/\ Done
     /\ ValidShape
     /\ Len(InputMessages) >= 1
     /\ \A k \in 1..Len(InputMessages) :
            /\ PlainString(InputMessages[k]) \/ WellFormed(InputMessages[k])
            /\ StringLabel(InputMessages[k]))
    => fsOut.lines =
         HeaderLines
         \o Flatten([j \in 1..Len(InputMessages) |-> ExpectedRendering(InputMessages[j], j)])

\* C3: in every iteration of the loop, on the message at 1-based position
\* i, the label is the capitalized author if author is present (also when
\* role is present too), else the capitalized role if role is present, else
\* "Message i (Unknown Author)": a message object whose label field is a
\* string or absent gets its label printed, what the iteration prints is
\* this label, and what it writes begins with '## ', this label and an empty
\* line.
C3_AuthorLabel ==
    [][i' = i + 1 =>
         LET m == messages[i']
         IN /\ (m.t = "dict" /\ StringLabel(m)) => log' # log
            /\ log' # log => log' = log \o LinesOf(ExpectedLabel(m, i'))
            /\ fsOut' # fsOut =>
                 /\ log' # log
                 /\ IsPrefix(fsOut.lines
                               \o LinesOf(HeadingOf(ExpectedLabel(m, i'))) \o << <<>> >>,
                             fsOut'.lines)]_vars

C3_Witness ==
    /\ Done
    /\ ValidShape
    /\ Len(InputMessages) = 2
    /\ InputMessages[1].t = "dict"
    /\ InputMessages[2].t = "dict"
    /\ DOMAIN InputMessages[1].v = {"author", "role", "content"}
    /\ DOMAIN InputMessages[2].v = {"content"}
    /\ WellFormed(InputMessages[2])
    /\ Len(fsOut.lines) >= 6
    /\ log[1] = <<"U", "s">>
    /\ log[2] = <<"Message ", "2", " (Unknown Author)">>
    /\ fsOut.lines[3] = <<"#", "#", " ", "U", "s">>
    /\ fsOut.lines[6] = <<"#", "#", " ", "Message ", "2", " (Unknown Author)">>

\* C4: after an input file that opens and is not valid JSON the output is
\* the header followed by one Error section and no message heading, and the
\* process reports failure to its caller with a non-zero status.
C4_ParseError ==
    (Done /\ NotValidJson)
    => /\ fsOut = File(HeaderLines \o ParseErrorLines)
       /\ H2Set(fsOut.lines) = {3}
       /\ exitCode # 0

\* C5: every parsed JSON value that is not an object with a messages list
\* gives the header followed by the Error section about the missing messages
\* list, the matching log line, and no message heading.
C5_InvalidShape ==
    (Done /\ ParsedJson /\ ~ValidShape)
    => /\ fsOut = File(HeaderLines \o NoListErrorLines)
       /\ log = <<LogNoList>>

\* C6: an empty messages list ends the run normally with the output being
\* the header followed by the placeholder line, no heading, no Error section,
\* and the success-with-zero-messages line as the final log line.
C6_EmptyList ==
    (Done /\ ValidShape /\ InputMessages = <<>>)
    => /\ fsOut = File(Append(HeaderLines, NoMessagesLine))
       /\ H2Set(fsOut.lines) = {}
       /\ log = <<LogEmpty>>
       /\ exitCode = 0

C6_Witness == Done /\ ValidShape /\ InputMessages = <<>> /\ Len(fsOut.lines) = 3

\* C7 as stated: when the input cannot be opened the run reports file not
\* found, and no step of it creates, truncates or writes the output file.
C7_Original ==
    /\ []((Done /\ inputOpen # "ok") => log = <<LogNotFound>>)
    /\ [][inputOpen # "ok" => fsOut' = fsOut]_vars

\* C7 amended: when the input does not exist the run reports file not found,
\* when it cannot be opened for another reason the run reports an unexpected
\* error; in both cases no step creates, truncates or writes the output file.
C7_InputNotOpened ==
    /\ []((Done /\ inputOpen # "ok") =>
            log = << IF inputOpen = "FileNotFoundError" THEN LogNotFound
                     ELSE LogUnexpected(OpenError(inputOpen, InputPath)) >>)
    /\ [][inputOpen # "ok" => fsOut' = fsOut]_vars

C7_Witness ==
    Done /\ inputOpen = "FileNotFoundError" /\ outputOpen = "ok" /\ fsOut = OldFile

\* C8: every run reaches the end of the process, and the last line printed
\* is then a status line (a success line or an error description).
C8_Terminates == <>(Done /\ Len(log) > 0 /\ IsStatusLine(LastLog))

C8_Witness ==
    /\ Done
    /\ exc.type = "KeyError"
    /\ Len(log) = 3
    /\ ~IsStatusLine(log[2])
    /\ IsStatusLine(log[3])

\* C9 as stated: failures other than a malformed message are caught and
\* logged, a malformed message (KeyError on parts or text) leaves convert
\* uncaught and crashes the process.
C9_Original ==
    (Done /\ exc # NoExc)
    => IF exc.type = "KeyError"
       THEN exitCode # 0
       ELSE exitCode = 0 /\ IsStatusLine(LastLog)

\* C9 amended: every failure, a malformed message included, is caught at the
\* top level of convert and turned into a log line; a malformed message is
\* taken by the generic handler and printed as an unexpected error, and the
\* process ends with status 0.
C9_AllCaught ==
    (Done /\ exc # NoExc)
    => /\ exitCode = 0
       /\ LastLog = CASE exc.type = "JSONDecodeError" -> LogParseError
                      [] exc.type = "FileNotFoundError" -> LogNotFound
                      [] OTHER -> LogUnexpected(exc)

C9_Witness ==
    /\ Done
    /\ exc = Raise("KeyError", "'text'")
    /\ Len(InputMessages) = 2
    /\ i = 2

\* C10: when message k is the first malformed message, the output holds the
\* header, the complete renderings of messages 1..k-1, of message k nothing
\* (content without parts) or its heading and the part lines before the
\* faulty part, nothing after, no Error section, and no success line is
\* printed.  Stated for inputs whose other messages are plain-string or
\* well-formed messages with string labels.
FirstMalformed ==
    CHOOSE k \in 1..Len(InputMessages) :
        /\ Malformed(InputMessages[k])
        /\ \A j \in 1..(k - 1) : ~Malformed(InputMessages[j])

PartialRendering(m, pos) ==
    IF "parts" \notin DOMAIN Resolved(m).v THEN <<>>
    ELSE LET bad == CHOOSE k \in 1..Len(PartsOf(m)) :
                        /\ "text" \notin DOMAIN PartsOf(m)[k].v
                        /\ \A j \in 1..(k - 1) : "text" \in DOMAIN PartsOf(m)[j].v
         IN LinesOf(HeadingOf(ExpectedLabel(m, pos))) \o << <<>> >>
            \o Flatten([k \in 1..(bad - 1) |-> LinesOf(Format(PartsOf(m)[k].v.text))])

C10_StopsAtFirstMalformed ==
    (/\ Done
     /\ ValidShape
     /\ \E k \in 1..Len(InputMessages) : Malformed(InputMessages[k])
     /\ \A k \in 1..Len(InputMessages) :
            /\ InputMessages[k].t = "dict"
            /\ \/ PlainString(InputMessages[k])
               \/ WellFormed(InputMessages[k])
               \/ Malformed(InputMessages[k])
            /\ StringLabel(InputMessages[k]))
    => /\ fsOut.lines =
            HeaderLines
            \o Flatten([j \in 1..(FirstMalformed - 1) |->
                            ExpectedRendering(InputMessages[j], j)])
            \o PartialRendering(InputMessages[FirstMalformed], FirstMalformed)
       /\ \A k \in 1..Len(log) : log[k] # LogSuccessLine(Len(InputMessages))
       /\ \A p \in 1..Len(fsOut.lines) : fsOut.lines[p] # ErrorHeading
====
